---- MODULE Spec2Model ----
(***************************************************************************)
(* Boundary ("support vector") selection pipeline of support_vectors:      *)
(* the interclass vertex extractor, the three degree filters and the       *)
(* orchestrator with its class-coverage check.                             *)
(*                                                                         *)
(* Arrays are functions over 0..n-1, as numpy indexes them.  A point is    *)
(* represented by its row id; labels are the integers of Classes.          *)
(* Degrees are IEEE-754 binary64 values: the code computes them with       *)
(* Python's int / int and averages them with np.mean, and it compares the  *)
(* rounded results, so the rounding is part of the behaviour.              *)
(***************************************************************************)
EXTENDS Integers, Sequences, FiniteSets

(***************************************************************************)
(* binary64 arithmetic.                                                    *)
(* A finite double is [neg, e, h, l]: (-1)^neg * (h * 2^28 + l) * 2^e,     *)
(* with a 53-bit significand split in a 25-bit high limb and a 28-bit low  *)
(* limb (so that no intermediate value leaves 32 bits), normalised:        *)
(* 2^24 <= h < 2^25, or h = l = e = 0 for zero.  Rounding is to nearest,   *)
(* ties to even.  Subnormals, infinities and NaN do not arise here.        *)
(***************************************************************************)
Limb == 2^28

RECURSIVE Log2(_)
Log2(n) == IF n <= 1 THEN 0 ELSE 1 + Log2(n \div 2)

FZero == [neg |-> FALSE, e |-> 0, h |-> 0, l |-> 0]

IsZero(a) == a.h = 0 /\ a.l = 0

\* float(k) for an integer 0 <= k < 2^24 (exact).
FromInt(k) ==
    IF k = 0 THEN FZero
    ELSE [neg |-> FALSE, e |-> Log2(k) - 52, h |-> k * 2^(24 - Log2(k)), l |-> 0]

FNeg(a) == [a EXCEPT !.neg = ~a.neg]

\* The significand with three extra low bits (guard, round, sticky):
\* <<H, L>> is the 56-bit number H * 2^28 + L = 8 * (h * 2^28 + l).
Ext(a) == << a.h * 8 + (a.l \div 2^25), (a.l % 2^25) * 8 >>

\* <<H, L>> shifted right by d bits; a 1 shifted out sticks in the lowest bit.
ShiftRightSticky(HL, d) ==
    LET H == HL[1]
        L == HL[2]
        res == IF d = 0 THEN << H, L, FALSE >>
               ELSE IF d < 28
                    THEN << H \div 2^d,
                            (L \div 2^d) + (H % 2^d) * 2^(28 - d),
                            L % 2^d # 0 >>
               ELSE IF d < 58
                    THEN << 0, H \div 2^(d - 28),
                            L # 0 \/ H % 2^(d - 28) # 0 >>
               ELSE << 0, 0, H # 0 \/ L # 0 >>
    IN  << res[1], IF res[3] /\ res[2] % 2 = 0 THEN res[2] + 1 ELSE res[2] >>

\* Round a normalised 56-bit <<H, L>> (2^27 <= H < 2^28) of exponent e
\* (value (H * 2^28 + L) * 2^(e - 3)) to 53 bits, nearest, ties to even.
RoundExt(HL, e) ==
    LET low3 == HL[2] % 8
        ml   == (HL[2] \div 8) + (HL[1] % 8) * 2^25
        mh   == HL[1] \div 8
        up   == low3 > 4 \/ (low3 = 4 /\ ml % 2 = 1)
        l1   == IF up THEN ml + 1 ELSE ml
        h1   == IF l1 = Limb THEN mh + 1 ELSE mh
        l2   == IF l1 = Limb THEN 0 ELSE l1
    IN  IF h1 = 2^25
        THEN [neg |-> FALSE, e |-> e + 1, h |-> 2^24, l |-> 0]
        ELSE [neg |-> FALSE, e |-> e, h |-> h1, l |-> l2]

\* a + b for a, b >= 0.
FAdd(a, b) ==
    IF IsZero(a) THEN b
    ELSE IF IsZero(b) THEN a
    ELSE LET big   == IF a.e >= b.e THEN a ELSE b
             small == IF a.e >= b.e THEN b ELSE a
             A     == Ext(big)
             B     == ShiftRightSticky(Ext(small), big.e - small.e)
             sl    == A[2] + B[2]
             sumL  == sl % Limb
             sumH  == A[1] + B[1] + (sl \div Limb)
         IN  IF sumH >= Limb
             THEN RoundExt(ShiftRightSticky(<< sumH, sumL >>, 1), big.e + 1)
             ELSE RoundExt(<< sumH, sumL >>, big.e)

\* a / float(n) for a >= 0 and an integer 1 <= n <= 7.
FDivInt(a, n) ==
    IF IsZero(a) THEN FZero
    ELSE LET k    == 4 + Log2(n)
             \* the dividend (h * 2^28 + l) * 2^k in limbs d1, d0
             d1   == a.h * 2^k + (a.l \div 2^(28 - k))
             d0   == (a.l % 2^(28 - k)) * 2^k
             q1   == d1 \div n
             r1   == d1 % n
             q0   == (r1 * Limb + d0) \div n
             rem  == (r1 * Limb + d0) % n
             \* 2^55 <= q1 * 2^28 + q0 < 2^57
             wide == q1 >= Limb
             Q    == IF wide THEN ShiftRightSticky(<< q1, q0 >>, 1) ELSE << q1, q0 >>
             Qs   == IF rem # 0 /\ Q[2] % 2 = 0 THEN << Q[1], Q[2] + 1 >> ELSE Q
         IN  RoundExt(Qs, a.e - k + 3 + (IF wide THEN 1 ELSE 0))

\* Python's k / m on small non-negative integers.
TrueDiv(k, m) == FDivInt(FromInt(k), m)

\* a < b on finite doubles.
FLt(a, b) ==
    IF a.neg /\ ~b.neg THEN ~(IsZero(a) /\ IsZero(b))
    ELSE IF ~a.neg /\ b.neg THEN FALSE
    ELSE LET magLt(x, y) ==
                 IF IsZero(y) THEN FALSE
                 ELSE IF IsZero(x) THEN TRUE
                 ELSE x.e < y.e
                      \/ (x.e = y.e /\ (x.h < y.h \/ (x.h = y.h /\ x.l < y.l)))
         IN  IF a.neg THEN magLt(b, a) ELSE magLt(a, b)

FGe(a, b) == ~FLt(a, b)

FGt(a, b) == FLt(b, a)

(***************************************************************************)
(* Bounds of the model.                                                    *)
(***************************************************************************)
\* pipeline: number of input points
MaxN == 3
\* extractor alone: number of vertices
MaxV == 4
\* filters alone: length of the input arrays
MaxLen == 3
\* filters alone: the degrees are those of vertices with Den neighbours, k / Den
Den == 5

\* class identifiers (integers, as np.unique orders them)
Classes == {0, 1, 2}

\* class identifiers of the inputs of filter_by_degree alone
FilterClasses == {0, 1}

(***************************************************************************)
(* numpy arrays: functions over 0..n-1.                                    *)
(***************************************************************************)
len(a) == Cardinality(DOMAIN a)

Empty == << >>

Arange(n) == [i \in 0 .. n - 1 |-> i]

\* the elements of a finite set of integers in ascending order
Sorted(S) ==
    [k \in 0 .. Cardinality(S) - 1 |->
        CHOOSE i \in S : Cardinality({j \in S : j < i}) = k]

\* np.where(mask)[0]
Where(mask) == Sorted({i \in DOMAIN mask : mask[i]})

\* a[idx] for an index array idx
TakeIdx(a, idx) == [k \in DOMAIN idx |-> a[idx[k]]]

\* a[mask] for a boolean mask
Take(a, mask) == TakeIdx(a, Where(mask))

\* mask[sel] = vals, the k-th selected position receiving vals[k]
Put(mask, sel, vals) ==
    [i \in DOMAIN mask |->
        IF sel[i] THEN vals[Cardinality({j \in DOMAIN sel : sel[j] /\ j < i})]
        ELSE mask[i]]

\* list.append
Push(a, v) == [i \in 0 .. len(a) |-> IF i < len(a) THEN a[i] ELSE v]

\* np.unique
Unique(a) == Sorted({a[i] : i \in DOMAIN a})

\* np.add.reduce over fewer than 8 doubles: left to right from 0
RECURSIVE SumTo(_, _)
SumTo(a, n) == IF n = 0 THEN FZero ELSE FAdd(SumTo(a, n - 1), a[n - 1])

\* np.mean of 1..7 doubles
Mean(a) == FDivInt(SumTo(a, len(a)), len(a))

One == FromInt(1)

MinusOne == FNeg(FromInt(1))

\* the double nearest 1e-6 (0x1.0c6f7a0b5ed8dp-20)
Tolerance == [neg |-> FALSE, e |-> -72, h |-> 17592186, l |-> 11922829]

(***************************************************************************)
(* filtering/get_interclass_vertices.py                                    *)
(***************************************************************************)
\* Mutant of Degree: floor division (//) in place of true division (/).
DegreeFloorDiv(same_class_neighbors, neighbors) ==
    FromInt(len(same_class_neighbors) \div len(neighbors))

\* line 47: the share of same-class neighbours
Degree(same_class_neighbors, neighbors) ==
    TrueDiv(len(same_class_neighbors), len(neighbors))

RECURSIVE InterclassLoop(_, _, _, _, _)
InterclassLoop(Xa, ADJa, ya, i, acc) ==
    IF i = len(Xa) THEN acc
    ELSE LET neighbors == Where(ADJa[i])
             same_class_neighbors ==
                 Take(neighbors, [k \in DOMAIN neighbors |-> ya[neighbors[k]] = ya[i]])
             different_class_neighbors ==
                 Take(neighbors, [k \in DOMAIN neighbors |-> ya[neighbors[k]] # ya[i]])
             next ==
                 IF len(neighbors) = 0 THEN acc
                 ELSE IF len(different_class_neighbors) > 0
                 THEN [vertices     |-> Push(acc.vertices, Xa[i]),
                       class_labels |-> Push(acc.class_labels, ya[i]),
                       degrees      |-> [acc.degrees EXCEPT ![i] =
                                            Degree(same_class_neighbors, neighbors)]]
                 ELSE acc
         IN  InterclassLoop(Xa, ADJa, ya, i + 1, next)

\* Mutant of get_interclass_vertices: the per-vertex degrees array is returned
\* as allocated, the -1 placeholders of the skipped vertices left in.
get_interclass_vertices_uncompacted(Xa, ADJa, ya) ==
    LET r == InterclassLoop(Xa, ADJa, ya, 0,
                 [vertices     |-> Empty,
                  class_labels |-> Empty,
                  degrees      |-> [i \in 0 .. len(Xa) - 1 |-> MinusOne]])
    IN  [vertices     |-> r.vertices,
         class_labels |-> r.class_labels,
         degrees      |-> r.degrees]

get_interclass_vertices(Xa, ADJa, ya) ==
    LET r == InterclassLoop(Xa, ADJa, ya, 0,
                 [vertices     |-> Empty,
                  class_labels |-> Empty,
                  degrees      |-> [i \in 0 .. len(Xa) - 1 |-> MinusOne]])
    IN  [vertices     |-> r.vertices,
         class_labels |-> r.class_labels,
         degrees      |-> Take(r.degrees,
                               [i \in DOMAIN r.degrees |-> r.degrees[i] # MinusOne])]

(***************************************************************************)
(* filtering/filter_by_degree.py                                           *)
(***************************************************************************)
RECURSIVE ClassAverageLoop(_, _, _, _, _)
ClassAverageLoop(ya, degrees, unique_classes, c, mask) ==
    IF c = len(unique_classes) THEN mask
    ELSE LET class_label      == unique_classes[c]
             class_mask       == [i \in DOMAIN ya |-> ya[i] = class_label]
             class_degrees    == Take(degrees, class_mask)
             class_avg_degree == Mean(class_degrees)
         IN  ClassAverageLoop(ya, degrees, unique_classes, c + 1,
                 Put(mask, class_mask,
                     [k \in DOMAIN class_degrees |->
                         FGe(class_degrees[k], class_avg_degree)]))

class_average_filter(Xa, ya, degrees) ==
    LET mask == ClassAverageLoop(ya, degrees, Unique(ya), 0,
                                 [i \in 0 .. len(Xa) - 1 |-> FALSE])
    IN  [X |-> Take(Xa, mask), y |-> Take(ya, mask)]

RECURSIVE InterclassAverageLoop(_, _, _, _, _)
InterclassAverageLoop(ya, degrees, unique_classes, c, mask) ==
    IF c = len(unique_classes) THEN mask
    ELSE LET class_label     == unique_classes[c]
             class_mask      == [i \in DOMAIN ya |-> ya[i] = class_label]
             class_degrees   == Take(degrees, class_mask)
             interclass_mask == [k \in DOMAIN class_degrees |->
                                    FLt(class_degrees[k], One)]
             interclass_avg_degree == Mean(Take(class_degrees, interclass_mask))
         IN  InterclassAverageLoop(ya, degrees, unique_classes, c + 1,
                 IF \E k \in DOMAIN interclass_mask : interclass_mask[k]
                 THEN Put(mask, class_mask,
                          [k \in DOMAIN class_degrees |->
                              FGe(class_degrees[k], interclass_avg_degree)])
                 ELSE Put(mask, class_mask,
                          [k \in DOMAIN class_degrees |-> TRUE]))

\* Mutant of interclass_average_filter: the class mean is taken over all the
\* members of the class, those of degree 1.0 included.
interclass_average_filter_unrestricted(Xa, ya, degrees) ==
    class_average_filter(Xa, ya, degrees)

interclass_average_filter(Xa, ya, degrees) ==
    LET mask == InterclassAverageLoop(ya, degrees, Unique(ya), 0,
                                      [i \in 0 .. len(Xa) - 1 |-> FALSE])
    IN  [X |-> Take(Xa, mask), y |-> Take(ya, mask)]

\* Mutant of zero_degree_filter: the threshold is the mean degree of the input
\* instead of the fixed tolerance.
zero_degree_filter_relative(Xa, ya, degrees) ==
    LET mask == [i \in DOMAIN degrees |-> FGt(degrees[i], Mean(degrees))]
    IN  [X |-> Take(Xa, mask), y |-> Take(ya, mask)]

zero_degree_filter(Xa, ya, degrees) ==
    LET mask == [i \in DOMAIN degrees |-> FGt(degrees[i], Tolerance)]
    IN  [X |-> Take(Xa, mask), y |-> Take(ya, mask)]

NoError == [type |-> "none", msg |-> "", arg |-> ""]

ValueError(m, a) == [type |-> "ValueError", msg |-> m, arg |-> a]

\* the dispatch: the filter's result, or the error it raises
filter_by_degree(Xa, ya, degrees, filter) ==
    IF filter = "class-average"
    THEN [raised |-> NoError, out |-> class_average_filter(Xa, ya, degrees)]
    ELSE IF filter = "interclass-average"
    THEN [raised |-> NoError, out |-> interclass_average_filter(Xa, ya, degrees)]
    ELSE IF filter = "zero"
    THEN [raised |-> NoError, out |-> zero_degree_filter(Xa, ya, degrees)]
    ELSE [raised |-> ValueError("Unknown filter method: ", filter),
          out |-> [X |-> Empty, y |-> Empty]]

(***************************************************************************)
(* State.  One call is in progress at a time: a call of support_vectors    *)
(* (Spec), of get_interclass_vertices alone (SpecExtract) or of            *)
(* filter_by_degree alone (SpecFilter).                                    *)
(***************************************************************************)
VARIABLES
    pc,                         \* position of the call
    X, y,                       \* the points (row ids) and their labels
    graph_method, filter_method, one_step_filter_criterion,
    ADJ,                        \* adjacency matrix over X
    Xinter, yinter, degreeinter,
    Xfiltered, yfiltered, ADJfiltered,
    Xsupport, ysupport,
    degrees,                    \* filter_by_degree alone: its degrees argument
    again,                      \* filter_by_degree alone: the filter applied to its own output
    raised,                     \* the exception that ended the call, or NoError
    nbuild, nextract, nfilter   \* calls made so far to build_graph,
                                \* get_interclass_vertices and filter_by_degree

vars == << pc, X, y, graph_method, filter_method, one_step_filter_criterion,
           ADJ, Xinter, yinter, degreeinter, Xfiltered, yfiltered, ADJfiltered,
           Xsupport, ysupport, degrees, again, raised, nbuild, nextract, nfilter >>

\* support_vectors.py lines 50-54
method_dict == {"gabriel", "relative_neighborhood", "urquhart"}

GraphMethods == method_dict \cup {"delaunay"}

FilterMethods == {"two-pass", "one-pass", "three-pass"}

Criteria == {"class-average", "interclass-average", "zero", "median"}

\* What a graph provider may return for n points: a symmetric boolean matrix
\* without self-loops.
Graphs(n) ==
    LET Pairs == {e \in SUBSET (0 .. n - 1) : Cardinality(e) = 2}
    IN  { [i \in 0 .. n - 1 |-> [j \in 0 .. n - 1 |-> {i, j} \in E]] :
            E \in SUBSET Pairs }

\* The degrees the extractor forms for vertices with Den neighbours, and 1.0.
DegreeValues == {TrueDiv(k, Den) : k \in 0 .. Den}

\* Label vectors of length n up to a renaming of the classes: the classes are
\* numbered in the order of their first appearance.
Labelings(n) ==
    {f \in [0 .. n - 1 -> Classes] :
        \A i \in 0 .. n - 1 : \A c \in Classes :
            c < f[i] => \E j \in 0 .. i - 1 : f[j] = c}

Unset ==
    /\ ADJ = Empty /\ Xinter = Empty /\ yinter = Empty /\ degreeinter = Empty
    /\ Xfiltered = Empty /\ yfiltered = Empty /\ ADJfiltered = Empty
    /\ Xsupport = Empty /\ ysupport = Empty
    /\ again = Empty
    /\ raised = NoError
    /\ nbuild = 0 /\ nextract = 0 /\ nfilter = 0

(***************************************************************************)
(* support_vectors.py: one call of support_vectors.                        *)
(***************************************************************************)
Init ==
    /\ pc = "call"
    /\ \E n \in 1 .. MaxN : X = Arange(n) /\ y \in Labelings(n)
    /\ graph_method \in GraphMethods
    /\ filter_method \in FilterMethods
    /\ one_step_filter_criterion \in Criteria
    /\ degrees = Empty
    /\ Unset

\* lines 56-59
ResolveGraph ==
    /\ pc = "call"
    /\ IF graph_method \in method_dict
       THEN pc' = "build" /\ raised' = raised
       ELSE pc' = "raised"
            /\ raised' = ValueError("Unknown graph method: ", graph_method)
    /\ UNCHANGED << X, y, graph_method, filter_method, one_step_filter_criterion,
                    ADJ, Xinter, yinter, degreeinter, Xfiltered, yfiltered,
                    ADJfiltered, Xsupport, ysupport, degrees, again,
                    nbuild, nextract, nfilter >>

\* line 64
BuildGraph ==
    /\ pc = "build"
    /\ ADJ' \in Graphs(len(X))
    /\ nbuild' = nbuild + 1
    /\ pc' = "extract"
    /\ UNCHANGED << X, y, graph_method, filter_method, one_step_filter_criterion,
                    Xinter, yinter, degreeinter, Xfiltered, yfiltered,
                    ADJfiltered, Xsupport, ysupport, degrees, again, raised,
                    nextract, nfilter >>

\* line 66
Extract ==
    /\ pc = "extract"
    /\ LET r == get_interclass_vertices(X, ADJ, y)
       IN  /\ Xinter' = r.vertices
           /\ yinter' = r.class_labels
           /\ degreeinter' = r.degrees
    /\ nextract' = nextract + 1
    /\ pc' = "dispatch"
    /\ UNCHANGED << X, y, graph_method, filter_method, one_step_filter_criterion,
                    ADJ, Xfiltered, yfiltered, ADJfiltered, Xsupport, ysupport,
                    degrees, again, raised, nbuild, nfilter >>

\* lines 68-72
TwoPassFilter ==
    /\ pc = "dispatch"
    /\ filter_method = "two-pass"
    /\ LET r == filter_by_degree(Xinter, yinter, degreeinter, "class-average")
       IN  Xfiltered' = r.out.X /\ yfiltered' = r.out.y
    /\ nfilter' = nfilter + 1
    /\ pc' = "rebuild"
    /\ UNCHANGED << X, y, graph_method, filter_method, one_step_filter_criterion,
                    ADJ, Xinter, yinter, degreeinter, ADJfiltered, Xsupport,
                    ysupport, degrees, again, raised, nbuild, nextract >>

\* line 74
RebuildGraph ==
    /\ pc = "rebuild"
    /\ ADJfiltered' \in Graphs(len(Xfiltered))
    /\ nbuild' = nbuild + 1
    /\ pc' = "extract2"
    /\ UNCHANGED << X, y, graph_method, filter_method, one_step_filter_criterion,
                    ADJ, Xinter, yinter, degreeinter, Xfiltered, yfiltered,
                    Xsupport, ysupport, degrees, again, raised, nextract, nfilter >>

\* lines 76-78
ExtractAgain ==
    /\ pc = "extract2"
    /\ LET r == get_interclass_vertices(Xfiltered, ADJfiltered, yfiltered)
       IN  Xsupport' = r.vertices /\ ysupport' = r.class_labels
    /\ nextract' = nextract + 1
    /\ pc' = "coverage"
    /\ UNCHANGED << X, y, graph_method, filter_method, one_step_filter_criterion,
                    ADJ, Xinter, yinter, degreeinter, Xfiltered, yfiltered,
                    ADJfiltered, degrees, again, raised, nbuild, nfilter >>

\* Mutant of OnePass: class-average is accepted as a one-pass criterion.
OnePassAcceptsClassAverage ==
    /\ pc = "dispatch"
    /\ filter_method # "two-pass"
    /\ filter_method = "one-pass"
    /\ IF one_step_filter_criterion \notin
              {"class-average", "interclass-average", "zero"}
       THEN /\ pc' = "raised"
            /\ raised' = ValueError("Unknown one-step filter criterion: ",
                                    one_step_filter_criterion)
            /\ UNCHANGED << Xsupport, ysupport, nfilter >>
       ELSE LET r == filter_by_degree(Xinter, yinter, degreeinter,
                                      one_step_filter_criterion)
            IN  /\ Xsupport' = r.out.X /\ ysupport' = r.out.y
                /\ nfilter' = nfilter + 1
                /\ pc' = "coverage"
                /\ raised' = raised
    /\ UNCHANGED << X, y, graph_method, filter_method, one_step_filter_criterion,
                    ADJ, Xinter, yinter, degreeinter, Xfiltered, yfiltered,
                    ADJfiltered, degrees, again, nbuild, nextract >>

\* lines 80-88
OnePass ==
    /\ pc = "dispatch"
    /\ filter_method # "two-pass"
    /\ filter_method = "one-pass"
    /\ IF one_step_filter_criterion \notin {"interclass-average", "zero"}
       THEN /\ pc' = "raised"
            /\ raised' = ValueError("Unknown one-step filter criterion: ",
                                    one_step_filter_criterion)
            /\ UNCHANGED << Xsupport, ysupport, nfilter >>
       ELSE LET r == filter_by_degree(Xinter, yinter, degreeinter,
                                      one_step_filter_criterion)
            IN  /\ Xsupport' = r.out.X /\ ysupport' = r.out.y
                /\ nfilter' = nfilter + 1
                /\ pc' = "coverage"
                /\ raised' = raised
    /\ UNCHANGED << X, y, graph_method, filter_method, one_step_filter_criterion,
                    ADJ, Xinter, yinter, degreeinter, Xfiltered, yfiltered,
                    ADJfiltered, degrees, again, nbuild, nextract >>

\* Mutant of UnknownFilter: the message names the criterion argument.
UnknownFilterNamesCriterion ==
    /\ pc = "dispatch"
    /\ filter_method # "two-pass"
    /\ filter_method # "one-pass"
    /\ pc' = "raised"
    /\ raised' = ValueError("Unknown filter method: ", one_step_filter_criterion)
    /\ UNCHANGED << X, y, graph_method, filter_method, one_step_filter_criterion,
                    ADJ, Xinter, yinter, degreeinter, Xfiltered, yfiltered,
                    ADJfiltered, Xsupport, ysupport, degrees, again,
                    nbuild, nextract, nfilter >>

\* lines 90-91
UnknownFilter ==
    /\ pc = "dispatch"
    /\ filter_method # "two-pass"
    /\ filter_method # "one-pass"
    /\ pc' = "raised"
    /\ raised' = ValueError("Unknown filter method: ", filter_method)
    /\ UNCHANGED << X, y, graph_method, filter_method, one_step_filter_criterion,
                    ADJ, Xinter, yinter, degreeinter, Xfiltered, yfiltered,
                    ADJfiltered, Xsupport, ysupport, degrees, again,
                    nbuild, nextract, nfilter >>

CoverageError ==
    ValueError("The support vectors do not cover all classes in the original data.",
               "")

\* Mutant of CoverageCheck: np.unique is not applied to the result's labels.
CoverageCheckNoUnique ==
    /\ pc = "coverage"
    /\ IF len(Unique(y)) # len(ysupport)
       THEN pc' = "raised" /\ raised' = CoverageError
       ELSE pc' = "returned" /\ raised' = raised
    /\ UNCHANGED << X, y, graph_method, filter_method, one_step_filter_criterion,
                    ADJ, Xinter, yinter, degreeinter, Xfiltered, yfiltered,
                    ADJfiltered, Xsupport, ysupport, degrees, again,
                    nbuild, nextract, nfilter >>

\* Mutant of CoverageCheck: the counts are compared with < instead of !=.
CoverageCheckLess ==
    /\ pc = "coverage"
    /\ IF len(Unique(y)) < len(Unique(ysupport))
       THEN pc' = "raised" /\ raised' = CoverageError
       ELSE pc' = "returned" /\ raised' = raised
    /\ UNCHANGED << X, y, graph_method, filter_method, one_step_filter_criterion,
                    ADJ, Xinter, yinter, degreeinter, Xfiltered, yfiltered,
                    ADJfiltered, Xsupport, ysupport, degrees, again,
                    nbuild, nextract, nfilter >>

\* lines 93-98
CoverageCheck ==
    /\ pc = "coverage"
    /\ IF len(Unique(y)) # len(Unique(ysupport))
       THEN pc' = "raised" /\ raised' = CoverageError
       ELSE pc' = "returned" /\ raised' = raised
    /\ UNCHANGED << X, y, graph_method, filter_method, one_step_filter_criterion,
                    ADJ, Xinter, yinter, degreeinter, Xfiltered, yfiltered,
                    ADJfiltered, Xsupport, ysupport, degrees, again,
                    nbuild, nextract, nfilter >>

Next ==
    \/ ResolveGraph
    \/ BuildGraph
    \/ Extract
    \/ TwoPassFilter
    \/ RebuildGraph
    \/ ExtractAgain
    \/ OnePass
    \/ UnknownFilter
    \/ CoverageCheck

Spec == Init /\ [][Next]_vars

(***************************************************************************)
(* get_interclass_vertices called on its own.                              *)
(***************************************************************************)
InitExtract ==
    /\ pc = "x_call"
    /\ \E n \in 0 .. MaxV :
          /\ X = Arange(n)
          /\ y \in [0 .. n - 1 -> Classes]
          /\ ADJ \in Graphs(n)
    /\ graph_method = "" /\ filter_method = "" /\ one_step_filter_criterion = ""
    /\ Xinter = Empty /\ yinter = Empty /\ degreeinter = Empty
    /\ Xfiltered = Empty /\ yfiltered = Empty /\ ADJfiltered = Empty
    /\ Xsupport = Empty /\ ysupport = Empty
    /\ degrees = Empty /\ again = Empty
    /\ raised = NoError
    /\ nbuild = 0 /\ nextract = 0 /\ nfilter = 0

ExtractCall ==
    /\ pc = "x_call"
    /\ LET r == get_interclass_vertices(X, ADJ, y)
       IN  /\ Xinter' = r.vertices
           /\ yinter' = r.class_labels
           /\ degreeinter' = r.degrees
    /\ nextract' = nextract + 1
    /\ pc' = "x_done"
    /\ UNCHANGED << X, y, graph_method, filter_method, one_step_filter_criterion,
                    ADJ, Xfiltered, yfiltered, ADJfiltered, Xsupport, ysupport,
                    degrees, again, raised, nbuild, nfilter >>

NextExtract == ExtractCall

SpecExtract == InitExtract /\ [][NextExtract]_vars

(***************************************************************************)
(* filter_by_degree called on its own, then on its own output.             *)
(***************************************************************************)
InitFilter ==
    /\ pc = "f_call"
    /\ \E n \in 0 .. MaxLen :
          /\ X = Arange(n)
          /\ y \in [0 .. n - 1 -> FilterClasses]
          /\ degrees \in [0 .. n - 1 -> DegreeValues]
    /\ one_step_filter_criterion \in Criteria
    /\ graph_method = "" /\ filter_method = ""
    /\ Unset

\* filter_by_degree(X, y, degrees, filter), lines 34-41
FilterCall ==
    /\ pc = "f_call"
    /\ LET r == filter_by_degree(X, y, degrees, one_step_filter_criterion)
       IN  /\ raised' = r.raised
           /\ Xsupport' = r.out.X
           /\ ysupport' = r.out.y
           /\ pc' = IF r.raised = NoError THEN "f_done" ELSE "raised"
    /\ nfilter' = nfilter + 1
    /\ UNCHANGED << X, y, graph_method, filter_method, one_step_filter_criterion,
                    ADJ, Xinter, yinter, degreeinter, Xfiltered, yfiltered,
                    ADJfiltered, degrees, again, nbuild, nextract >>

\* The same filter on its own output; the degrees of the retained members are
\* degrees[Xsupport[k]], a row id being the row's index in X.
FilterAgain ==
    /\ pc = "f_done"
    /\ again' = filter_by_degree(Xsupport, ysupport, TakeIdx(degrees, Xsupport),
                                 one_step_filter_criterion).out
    /\ nfilter' = nfilter + 1
    /\ pc' = "f_again"
    /\ UNCHANGED << X, y, graph_method, filter_method, one_step_filter_criterion,
                    ADJ, Xinter, yinter, degreeinter, Xfiltered, yfiltered,
                    ADJfiltered, Xsupport, ysupport, degrees, raised,
                    nbuild, nextract >>

NextFilter ==
    \/ FilterCall
    \/ FilterAgain

SpecFilter == InitFilter /\ [][NextFilter]_vars

(***************************************************************************)
(* Properties.                                                             *)
(***************************************************************************)
Range(a) == {a[i] : i \in DOMAIN a}

\* the array with the elements of a sequence
Arr(seq) == [i \in 0 .. Len(seq) - 1 |-> seq[i + 1]]

Terminal == pc \in {"raised", "returned"}

\* a combination of method names that support_vectors accepts
Accepted ==
    /\ graph_method \in method_dict
    /\ \/ filter_method = "two-pass"
       \/ /\ filter_method = "one-pass"
          /\ one_step_filter_criterion \in {"interclass-average", "zero"}

\* the neighbours of vertex i in ADJ, and those of another class
N(i) == {j \in DOMAIN X : ADJ[i][j]}

NOther(i) == {j \in N(i) : y[j] # y[i]}

\* C1: a call of support_vectors with accepted method names ends either with
\* the coverage error or by returning labels whose set of distinct values is
\* that of the input labels; no result misses or adds a class.
C1_Coverage ==
    /\ pc = "returned" => raised = NoError /\ Range(ysupport) = Range(y)
    /\ Accepted /\ Terminal => pc = "returned" \/ raised = CoverageError

C1_Witness ==
    /\ pc = "returned"
    /\ Cardinality(Range(y)) >= 2
    /\ len(Xsupport) > 0
    /\ len(Xsupport) < len(X)

\* C2: get_interclass_vertices returns three arrays of one length; the
\* retained vertices are exactly those with a neighbour of another class, a
\* vertex without neighbours is never among them, and position k of the three
\* arrays describes the same vertex.
C2_Extractor ==
    pc = "x_done" =>
        /\ len(Xinter) = len(yinter)
        /\ len(Xinter) = len(degreeinter)
        /\ Xinter = Sorted({i \in DOMAIN X : NOther(i) # {}})
        /\ \A i \in DOMAIN X : N(i) = {} => X[i] \notin Range(Xinter)
        /\ \A k \in DOMAIN Xinter :
              LET i == Xinter[k]
              IN  /\ yinter[k] = y[i]
                  /\ degreeinter[k] =
                         TrueDiv(Cardinality(N(i) \ NOther(i)), Cardinality(N(i)))

C2_Witness ==
    /\ pc = "x_done"
    /\ len(Xinter) > 0
    /\ \E i \in DOMAIN X : N(i) = {}
    /\ \E i \in DOMAIN X : N(i) # {} /\ NOther(i) = {}
    /\ \E k \in DOMAIN Xinter : Xinter[k] # k

\* C3 as claimed: the interclass-average filter retains exactly the members
\* whose degree is >= the mean degree of all the input vertices, one global
\* threshold for every class.
C3_GlobalMean ==
    pc = "f_done" /\ one_step_filter_criterion = "interclass-average" =>
        LET keep == [i \in DOMAIN X |-> FGe(degrees[i], Mean(degrees))]
        IN  Xsupport = Take(X, keep) /\ ysupport = Take(y, keep)

\* The degrees below 1.0 of the members of class c, in input order.
InterclassDegrees(c) ==
    Take(degrees, [i \in DOMAIN X |-> y[i] = c /\ FLt(degrees[i], One)])

\* C3 as amended: the interclass-average filter retains exactly the members
\* whose degree is >= the mean (np.mean, in double precision) of the degrees
\* below 1.0 of the members of their own class, and every member of a class
\* that has no degree below 1.0: one threshold per class.
C3_PerClassMean ==
    pc = "f_done" /\ one_step_filter_criterion = "interclass-average" =>
        LET keep == [i \in DOMAIN X |->
                        \/ len(InterclassDegrees(y[i])) = 0
                        \/ FGe(degrees[i], Mean(InterclassDegrees(y[i])))]
        IN  Xsupport = Take(X, keep) /\ ysupport = Take(y, keep)

C3_Witness ==
    /\ pc = "f_done"
    /\ one_step_filter_criterion = "interclass-average"
    /\ Cardinality(Range(y)) = 2
    /\ len(Xsupport) < len(X)
    /\ \E i \in DOMAIN X : degrees[i] = One
    /\ LET keep == [i \in DOMAIN X |-> FGe(degrees[i], Mean(degrees))]
       IN  Xsupport # Take(X, keep)

\* C4 as claimed: with a recognized graph method and an unrecognized filter
\* method the call fails with a ValueError naming the filter method, and no
\* graph has been built and no extraction performed when it fails.
C4_NoWorkBeforeError ==
    /\ graph_method \in method_dict
    /\ filter_method \notin {"two-pass", "one-pass"}
    /\ pc = "raised"
    => /\ raised = ValueError("Unknown filter method: ", filter_method)
       /\ nbuild = 0
       /\ nextract = 0

\* C4 as amended: with a recognized graph method and an unrecognized filter
\* method the call fails with a ValueError naming the filter method; it is
\* raised at the filter-method dispatch, after the graph has been built once
\* and the first extraction performed, before any filter is applied, any graph
\* rebuilt or the coverage checked, and nothing is returned.
C4_ErrorAtDispatch ==
    graph_method \in method_dict /\ filter_method \notin {"two-pass", "one-pass"} =>
        /\ pc \in {"call", "build", "extract", "dispatch", "raised"}
        /\ pc = "raised" =>
              /\ raised = ValueError("Unknown filter method: ", filter_method)
              /\ nbuild = 1 /\ nextract = 1 /\ nfilter = 0
              /\ Xfiltered = Empty /\ Xsupport = Empty

C4_Witness ==
    /\ pc = "raised"
    /\ graph_method \in method_dict
    /\ filter_method = "three-pass"
    /\ len(Xinter) > 0

\* C5: with filter method one-pass, every criterion other than
\* interclass-average and zero (class-average included) ends the call with a
\* ValueError; for those two the result handed to the coverage check is that
\* criterion's filter applied to the first extraction's outputs, with one graph
\* built and one extraction made.
C5_OnePass ==
    graph_method \in method_dict /\ filter_method = "one-pass" =>
        IF one_step_filter_criterion \notin {"interclass-average", "zero"}
        THEN /\ pc \in {"call", "build", "extract", "dispatch", "raised"}
             /\ pc = "raised" =>
                   raised = ValueError("Unknown one-step filter criterion: ",
                                       one_step_filter_criterion)
        ELSE pc \in {"coverage", "raised", "returned"} =>
                LET r == IF one_step_filter_criterion = "zero"
                         THEN zero_degree_filter(Xinter, yinter, degreeinter)
                         ELSE interclass_average_filter(Xinter, yinter, degreeinter)
                IN  /\ Xsupport = r.X /\ ysupport = r.y
                    /\ nbuild = 1 /\ nextract = 1 /\ nfilter = 1
                    /\ ADJfiltered = Empty

C5_Witness ==
    /\ pc = "coverage"
    /\ filter_method = "one-pass"
    /\ one_step_filter_criterion = "zero"
    /\ len(Xsupport) > 0
    /\ len(Xsupport) < len(Xinter)

\* C6: labels [A, A, B, B] (A = 0, B = 1) with edges 0-1, 1-2, 2-3.
PathLabels == Arr(<< 0, 0, 1, 1 >>)

PathGraph ==
    [i \in 0 .. 3 |-> [j \in 0 .. 3 |-> i - j = 1 \/ j - i = 1]]

\* C6 as claimed: the extractor yields vertices 1 and 2, with
\* degree(1) = 0 / 1 = 0.0 and degree(2) = 0 / 1 = 0.0.
C6_ZeroDegrees ==
    pc = "x_done" /\ y = PathLabels /\ ADJ = PathGraph =>
        /\ Xinter = Arr(<< 1, 2 >>)
        /\ degreeinter = Arr(<< TrueDiv(0, 1), TrueDiv(0, 1) >>)

\* C6 as amended: the extractor yields vertices 1 and 2, each with one
\* same-class neighbour among its two neighbours: degree(1) = 1 / 2 = 0.5 and
\* degree(2) = 1 / 2 = 0.5.
C6_Scenario ==
    pc = "x_done" /\ y = PathLabels /\ ADJ = PathGraph =>
        /\ Xinter = Arr(<< 1, 2 >>)
        /\ yinter = Arr(<< 0, 1 >>)
        /\ degreeinter = Arr(<< TrueDiv(1, 2), TrueDiv(1, 2) >>)
        /\ \A k \in DOMAIN Xinter :
              /\ Cardinality(N(Xinter[k])) = 2
              /\ Cardinality(N(Xinter[k]) \ NOther(Xinter[k])) = 1

C6_Witness == pc = "x_done" /\ y = PathLabels /\ ADJ = PathGraph

\* vertex i is the only member of its class and has no edge in the graph
Isolated(i) ==
    /\ nbuild >= 1
    /\ \A j \in DOMAIN X : y[j] = y[i] => j = i
    /\ N(i) = {}

\* C7: when some class has a single member and that member has no edge in the
\* proximity graph, the member is never in the extractor's output and the call
\* ends with the coverage error for every accepted filter method and
\* criterion; it never returns.
C7_IsolatedClass ==
    \A i \in DOMAIN X :
        Isolated(i) =>
            /\ X[i] \notin Range(Xinter)
            /\ X[i] \notin Range(Xsupport)
            /\ pc # "returned"
            /\ Accepted /\ Terminal => raised = CoverageError

C7_Witness ==
    /\ pc = "raised"
    /\ raised = CoverageError
    /\ len(Xsupport) > 0
    /\ \E i \in DOMAIN X : Isolated(i)

\* the degrees of the members of class c among the rows ids, in order
DegreesOf(ids, labels, c) ==
    TakeIdx(degrees, Take(ids, [k \in DOMAIN ids |-> labels[k] = c]))

\* C8: after the class-average filter, every class of the input has retained
\* members and their mean degree is >= the mean degree of all the members of
\* the class.
C8_RetainedMean ==
    pc = "f_done" /\ one_step_filter_criterion = "class-average" =>
        \A c \in Range(y) :
            /\ len(DegreesOf(Xsupport, ysupport, c)) > 0
            /\ FGe(Mean(DegreesOf(Xsupport, ysupport, c)), Mean(DegreesOf(X, y, c)))

\* C9: the zero filter applied to its own output returns the same points and
\* labels, every retained degree exceeding the tolerance.
C9_ZeroIdempotent ==
    /\ pc \in {"f_done", "f_again"} /\ one_step_filter_criterion = "zero" =>
          \A k \in DOMAIN Xsupport : FGt(degrees[Xsupport[k]], Tolerance)
    /\ pc = "f_again" /\ one_step_filter_criterion = "zero" =>
          again = [X |-> Xsupport, y |-> ysupport]

C9_Witness ==
    /\ pc = "f_again"
    /\ one_step_filter_criterion = "zero"
    /\ len(Xsupport) > 0
    /\ len(Xsupport) < len(X)

\* C10: the class-average filter never drops a whole class: the distinct
\* labels of its output are those of its input.
C10_KeepsEveryClass ==
    pc = "f_done" /\ one_step_filter_criterion = "class-average" =>
        Range(ysupport) = Range(y)

====
